---- MODULE Spec2Model ----
(***************************************************************************)
(* The contact-sheet compositor (manim-skill/scripts/make_contact_sheet.py)*)
(* and the frame refresher (manim-skill/scripts/refresh_frames.py) as      *)
(* state machines.  One action per step of each script's main(); the       *)
(* filesystem, the installed tools and the command-line arguments are the  *)
(* environment.                                                            *)
(*                                                                         *)
(* Strings are sequences of one-character strings.  A file of the frame    *)
(* directory is named by an integer that is its rank in lexicographic file *)
(* name order: frames are 1..n, ContactSheetName and SceneSheetName are    *)
(* PNG names that sort before and after every frame, OtherName is a name   *)
(* that "*.png" does not match.                                            *)
(*                                                                         *)
(* Python computes the sampling step and the resize scale in binary        *)
(* floating point.  The model computes both exactly; on every value the    *)
(* model reaches, with its bounds as written or raised by one, the         *)
(* double-precision results equal the exact ones (from 26 frames on they   *)
(* can differ at ties).                                                    *)
(***************************************************************************)
EXTENDS Integers, Sequences, FiniteSets, TLC

\* ---------------------------------------------------------------- bounds
MaxDirFrames == 5
MaxFrames == 10
MaxCols == 4
MaxRows == 4
MaxRuns == 2
MaxRender == 3
MaxOld == 2

\* ------------------------------------------------------ program constants
DefaultMaxWidth == 320
DefaultLabelSize == 12
LabelPadding == 8
grid_line_width == 1

\* --------------------------------------------------------------- strings
DecDigits == <<"0", "1", "2", "3", "4", "5", "6", "7", "8", "9">>
HexDigits == <<"0", "1", "2", "3", "4", "5", "6", "7", "8", "9",
               "a", "b", "c", "d", "e", "f">>

IsDecDigit(ch) == \E k \in 1..10 : DecDigits[k] = ch
DecValue(ch) == (CHOOSE k \in 1..10 : DecDigits[k] = ch) - 1

\* str.lower() on the characters the arguments are drawn from
lower_char(ch) ==
    CASE ch = "X" -> "x"
      [] ch = "A" -> "a"
      [] ch = "F" -> "f"
      [] OTHER -> ch
lower(s) == [k \in 1..Len(s) |-> lower_char(s[k])]

IsHexDigit(ch) == \E k \in 1..16 : HexDigits[k] = lower_char(ch)
HexValue(ch) == (CHOOSE k \in 1..16 : HexDigits[k] = lower_char(ch)) - 1

\* str.split(sep): the pieces between the occurrences of sep (always >= 1)
RECURSIVE split(_, _)
split(s, sep) ==
    IF \A k \in 1..Len(s) : s[k] # sep
    THEN <<s>>
    ELSE LET k == CHOOSE i \in 1..Len(s) :
                      s[i] = sep /\ \A j \in 1..(i - 1) : s[j] # sep
         IN <<SubSeq(s, 1, k - 1)>> \o split(SubSeq(s, k + 1, Len(s)), sep)

\* int(text): an optional sign, then one or more decimal digits
int_digits(p) == IF Len(p) > 0 /\ p[1] \in {"+", "-"} THEN Tail(p) ELSE p
int_ok(p) ==
    /\ Len(int_digits(p)) > 0
    /\ \A k \in 1..Len(int_digits(p)) : IsDecDigit(int_digits(p)[k])
RECURSIVE digits_value(_)
digits_value(d) ==
    IF Len(d) = 0 THEN 0
    ELSE 10 * digits_value(SubSeq(d, 1, Len(d) - 1)) + DecValue(d[Len(d)])
int_value(p) ==
    IF Len(p) > 0 /\ p[1] = "-" THEN 0 - digits_value(int_digits(p))
    ELSE digits_value(int_digits(p))

\* parse_grid with the check "cols <= 0 or rows <= 0" left out
parse_grid_no_sign_check(grid) ==
    LET parts == split(lower(grid), "x") IN
    IF Len(parts) # 2 \/ ~int_ok(parts[1]) \/ ~int_ok(parts[2])
    THEN [ok |-> FALSE, cols |-> 0, rows |-> 0]
    ELSE [ok |-> TRUE, cols |-> int_value(parts[1]), rows |-> int_value(parts[2])]

parse_grid(grid) ==
    LET parts == split(lower(grid), "x") IN
    IF Len(parts) # 2 \/ ~int_ok(parts[1]) \/ ~int_ok(parts[2])
    THEN [ok |-> FALSE, cols |-> 0, rows |-> 0]
    ELSE LET c == int_value(parts[1])
             r == int_value(parts[2])
         IN IF c <= 0 \/ r <= 0
            THEN [ok |-> FALSE, cols |-> 0, rows |-> 0]
            ELSE [ok |-> TRUE, cols |-> c, rows |-> r]

\* str.lstrip("#")
RECURSIVE lstrip_hash(_)
lstrip_hash(s) ==
    IF Len(s) > 0 /\ s[1] = "#" THEN lstrip_hash(Tail(s)) ELSE s

hex_to_rgb(hex_color) ==
    LET h == lstrip_hash(hex_color) IN
    IF Len(h) # 6 \/ \E k \in 1..Len(h) : ~IsHexDigit(h[k])
    THEN [ok |-> FALSE, rgb |-> <<>>]
    ELSE [ok |-> TRUE,
          rgb |-> [k \in 1..3 |->
                      16 * HexValue(h[2 * k - 1]) + HexValue(h[2 * k])]]

\* ------------------------------------------------------------- selection
\* round(num / den) for num >= 0, den > 0: to nearest, ties to even
round(num, den) ==
    LET q == num \div den
        r == num % den
    IN IF 2 * r < den THEN q
       ELSE IF 2 * r > den THEN q + 1
       ELSE IF q % 2 = 0 THEN q ELSE q + 1

\* int(...) of the quotient instead of round(...)
round_truncating(num, den) == num \div den

\* the sampling branch's entry with int(...) of the quotient
sample_index_truncating(i, n, total) ==
    IF total > 1 THEN round_truncating((i - 1) * (n - 1), total - 1)
    ELSE round_truncating((i - 1) * 1, 1)

\* step = (len(frames) - 1) / total
sample_index_short_step(i, n, total) ==
    IF total > 1 THEN round((i - 1) * (n - 1), total)
    ELSE round((i - 1) * 1, 1)

\* step = len(frames) / (total - 1)
sample_index_long_step(i, n, total) ==
    IF total > 1 THEN round((i - 1) * n, total - 1)
    ELSE round((i - 1) * 1, 1)

\* entry i (1-based) of "indices" in the sampling branch, 0-based value
sample_index(i, n, total) ==
    IF total > 1 THEN round((i - 1) * (n - 1), total - 1)
    ELSE round((i - 1) * 1, 1)

\* the branch "len(frames) < total" left out: always sample
select_indices_always_sampling(n, total) ==
    [i \in 1..total |-> sample_index(i, n, total)]

\* the sampling branch left out: always every frame
select_indices_never_sampling(n, total) ==
    [i \in 1..n |-> i - 1]

select_indices(n, total) ==
    IF n < total
    THEN [i \in 1..n |-> i - 1]
    ELSE [i \in 1..total |-> sample_index(i, n, total)]

\* ------------------------------------------------------------ file names
ContactSheetName == 0
SceneSheetName == MaxFrames + MaxDirFrames + MaxRender + 1
OtherName == 0 - 1
NoPath == 0 - 2

\* what "*.png" matches
IsPng(name) == name >= 0
FrameNames(n) == 1..n
\* every frame the renderer writes has this (width, height)
FrameSize == <<4, 3>>

\* sorted(...): the names in increasing order
RECURSIVE sorted(_)
sorted(S) ==
    IF S = {} THEN <<>>
    ELSE LET m == CHOOSE x \in S : \A y \in S : x <= y
         IN <<m>> \o sorted(S \ {m})

Min(a, b) == IF a <= b THEN a ELSE b
Max(a, b) == IF a >= b THEN a ELSE b
MaxOf(S) == IF S = {} THEN 0 ELSE CHOOSE x \in S : \A y \in S : x >= y

DirWith(names) ==
    [exists |-> TRUE, files |-> names, dims |-> [f \in names |-> FrameSize]]
NoDir == [exists |-> FALSE, files |-> {}, dims |-> <<>>]

\* the directory after `name` was written with size `size`
WithFile(dir, name, size) ==
    [exists |-> dir.exists,
     files |-> dir.files \cup {name},
     dims |-> [f \in dir.files \cup {name} |->
                  IF f = name THEN size ELSE dir.dims[f]]]

\* ------------------------------------------------------------- arguments
DefaultGrid == <<"4", "x", "4">>
DefaultColor == <<"8", "0", "8", "0", "8", "0">>

GridStrings ==
    { <<"4">>, <<"4", "x">>, <<"0", "x", "4">>, <<"1", "x", "2", "x", "3">>,
      <<"4", "x", "-", "1">>, <<>>, <<"x">>, <<"x", "4">>,
      <<"4", "x", "x", "4">>, <<"a", "x", "b">>, <<"-", "2", "x", "2">>,
      <<"2", "x", "0">>, <<"2", "-", "2">>, <<"4", "x", "4", "a">>,
      <<"1", "x", "1">>, <<"2", "x", "2">>, DefaultGrid, <<"2", "X", "3">>,
      <<"3", "x", "1">>, <<"0", "2", "x", "2">>, <<"+", "1", "x", "3">> }

ColorStrings ==
    { DefaultColor, <<"#", "f", "F", "0", "0", "a", "A">>,
      <<"8", "0", "8", "0", "8">>, <<"8", "0", "8", "0", "z", "z">> }

MaxWidths == {2, DefaultMaxWidth}

DefaultArgs ==
    [grid |-> DefaultGrid, grid_color |-> DefaultColor, output |-> "",
     scene_name |-> "", max_width |-> DefaultMaxWidth,
     label_size |-> DefaultLabelSize]

Envs == [pillow : BOOLEAN, magick : BOOLEAN, montage : BOOLEAN]

VARIABLES
    args, env, fs,
    pc, exit_code, err, io, wrote, tool_rc, start_fs,
    cols, rows, Image, frames, indices, selected, output_path, cmd,
    cell_w, resized, cell_h, sheet_w, sheet_h, grid_color, placed,
    run, prev,
    rpc, rargs, rexit, render_rc, frame_count, log

world == <<args, env, fs>>
status == <<pc, exit_code, err, io, wrote, tool_rc, start_fs>>
locals == <<cols, rows, Image, frames, indices, selected, output_path, cmd,
            cell_w, resized, cell_h, sheet_w, sheet_h, grid_color, placed>>
history == <<run, prev>>
refresh == <<rpc, rargs, rexit, render_rc, frame_count, log>>
vars == <<world, status, locals, history, refresh>>

NoResult == [exit_code |-> 0 - 1, indices |-> <<>>, selected |-> <<>>,
             geometry |-> <<>>]
Geometry == <<cols, rows, cell_w, cell_h, sheet_w, sheet_h>>
Result == [exit_code |-> exit_code, indices |-> indices,
           selected |-> selected, geometry |-> Geometry]

\* main()'s local variables before its first statement
FreshLocals ==
    /\ cols = 0 /\ rows = 0 /\ Image = FALSE
    /\ frames = <<>> /\ indices = <<>> /\ selected = <<>>
    /\ output_path = NoPath /\ cmd = <<>>
    /\ cell_w = 0 /\ resized = <<>> /\ cell_h = 0
    /\ sheet_w = 0 /\ sheet_h = 0 /\ grid_color = <<>> /\ placed = <<>>

\* the same values, as the state a new process starts in
ResetLocals ==
    /\ cols' = 0 /\ rows' = 0 /\ Image' = FALSE
    /\ frames' = <<>> /\ indices' = <<>> /\ selected' = <<>>
    /\ output_path' = NoPath /\ cmd' = <<>>
    /\ cell_w' = 0 /\ resized' = <<>> /\ cell_h' = 0
    /\ sheet_w' = 0 /\ sheet_h' = 0 /\ grid_color' = <<>> /\ placed' = <<>>

NoRefresh ==
    /\ rpc = "none"
    /\ rargs = [file_exists |-> FALSE, contact_sheet |-> FALSE]
    /\ rexit = 0 - 1 /\ render_rc = 0 - 1 /\ frame_count = 0 /\ log = <<>>

Started ==
    /\ pc = "parse_grid" /\ exit_code = 0 - 1 /\ err = "" /\ io = {}
    /\ wrote = FALSE /\ tool_rc = 0 - 1 /\ start_fs = fs
    /\ FreshLocals
    /\ run = 1 /\ prev = NoResult

\* the compositor started by hand: any arguments, tools and directory
Init ==
    /\ args \in [grid : GridStrings, grid_color : ColorStrings,
                 output : {"", "sheet.jpg"}, scene_name : {"", "zeta"},
                 max_width : MaxWidths, label_size : {DefaultLabelSize}]
    /\ env \in Envs
    /\ fs \in {NoDir} \cup {DirWith(FrameNames(n)) : n \in 0..MaxDirFrames}
    /\ Started
    /\ NoRefresh

\* ------------------------------------------------- compositor: main()
\* raise SystemExit(message) and an uncaught exception both end the process
\* with exit code 1
Die(reason) == pc' = "done" /\ exit_code' = 1 /\ err' = reason

\* args = parse_args(); cols, rows = parse_grid(args.grid)
ParseGrid ==
    /\ pc = "parse_grid"
    /\ LET g == parse_grid(args.grid) IN
        /\ cols' = g.cols
        /\ rows' = g.rows
        /\ IF g.ok
           THEN pc' = "is_dir" /\ UNCHANGED <<exit_code, err>>
           ELSE Die("grid")
    /\ UNCHANGED <<world, io, wrote, tool_rc, start_fs, history, refresh>>
    /\ UNCHANGED <<Image, frames, indices, selected, output_path, cmd, cell_w,
                   resized, cell_h, sheet_w, sheet_h, grid_color, placed>>

\* if not image_dir.is_dir(): raise SystemExit
CheckDir ==
    /\ pc = "is_dir"
    /\ io' = io \cup {"is_dir"}
    /\ IF fs.exists
       THEN pc' = "import" /\ UNCHANGED <<exit_code, err>>
       ELSE Die("no_dir")
    /\ UNCHANGED <<world, wrote, tool_rc, start_fs, locals, history, refresh>>

\* try: from PIL import ...  except ModuleNotFoundError: Image = None
ImportPIL ==
    /\ pc = "import"
    /\ Image' = env.pillow
    /\ pc' = "glob"
    /\ UNCHANGED <<world, exit_code, err, io, wrote, tool_rc, start_fs,
                   history, refresh>>
    /\ UNCHANGED <<cols, rows, frames, indices, selected, output_path, cmd,
                   cell_w, resized, cell_h, sheet_w, sheet_h, grid_color,
                   placed>>

\* frames = sorted(image_dir.glob("*.png")); if not frames: raise SystemExit
ListFrames ==
    /\ pc = "glob"
    /\ io' = io \cup {"glob"}
    /\ frames' = sorted({f \in fs.files : IsPng(f)})
    /\ IF frames' # <<>>
       THEN pc' = "select" /\ UNCHANGED <<exit_code, err>>
       ELSE Die("no_frames")
    /\ UNCHANGED <<world, wrote, tool_rc, start_fs, history, refresh>>
    /\ UNCHANGED <<cols, rows, Image, indices, selected, output_path, cmd,
                   cell_w, resized, cell_h, sheet_w, sheet_h, grid_color,
                   placed>>

\* total = cols * rows; indices = ...; selected = [frames[i] for i in indices]
\* (frames[i] with i out of range raises IndexError)
SelectFrames ==
    /\ pc = "select"
    /\ indices' = select_indices(Len(frames), cols * rows)
    /\ IF \A k \in 1..Len(indices') : indices'[k] \in 0..(Len(frames) - 1)
       THEN /\ selected' = [k \in 1..Len(indices') |-> frames[indices'[k] + 1]]
            /\ pc' = "output"
            /\ UNCHANGED <<exit_code, err>>
       ELSE /\ selected' = <<>>
            /\ Die("index")
    /\ UNCHANGED <<world, io, wrote, tool_rc, start_fs, history, refresh>>
    /\ UNCHANGED <<cols, rows, Image, frames, output_path, cmd, cell_w,
                   resized, cell_h, sheet_w, sheet_h, grid_color, placed>>

\* output_filename, by --output, then --scene-name, then the default
output_filename(a) ==
    IF a.output # "" THEN OtherName
    ELSE IF a.scene_name # "" THEN SceneSheetName
    ELSE ContactSheetName

\* output_path = image_dir / output_filename; if Image is None: ...
ResolveOutput ==
    /\ pc = "output"
    /\ output_path' = output_filename(args)
    /\ pc' = IF Image THEN "open" ELSE "which"
    /\ UNCHANGED <<world, exit_code, err, io, wrote, tool_rc, start_fs,
                   history, refresh>>
    /\ UNCHANGED <<cols, rows, Image, frames, indices, selected, cmd, cell_w,
                   resized, cell_h, sheet_w, sheet_h, grid_color, placed>>

\* magick = shutil.which("magick"); montage = shutil.which("montage")
FindMontage ==
    /\ pc = "which"
    /\ io' = io \cup {"which"}
    /\ IF env.magick
       THEN cmd' = <<"magick", "montage">> /\ pc' = "montage"
                /\ UNCHANGED <<exit_code, err>>
       ELSE IF env.montage
       THEN cmd' = <<"montage">> /\ pc' = "montage"
                /\ UNCHANGED <<exit_code, err>>
       ELSE cmd' = cmd /\ Die("no_tool")
    /\ UNCHANGED <<world, wrote, tool_rc, start_fs, history, refresh>>
    /\ UNCHANGED <<cols, rows, Image, frames, indices, selected, output_path,
                   cell_w, resized, cell_h, sheet_w, sheet_h, grid_color,
                   placed>>

\* subprocess.run(cmd, check=True); return 0.  The tool exits 0 having
\* written the sheet, or non-zero having written it or not
\* (CalledProcessError is not caught).
RunMontage ==
    /\ pc = "montage"
    /\ \E rc \in {0, 1}, written \in BOOLEAN :
        /\ rc = 0 => written
        /\ tool_rc' = rc
        /\ wrote' = written
        /\ fs' = IF written
                 THEN WithFile(fs, output_path,
                               <<cols * args.max_width, rows * args.max_width>>)
                 ELSE fs
        /\ IF rc = 0
           THEN pc' = "done" /\ exit_code' = 0 /\ err' = err
           ELSE Die("montage")
    /\ io' = io \cup {"montage"}
    /\ UNCHANGED <<args, env, start_fs, locals, history, refresh>>

\* new_w, new_h of one image resized to the cell width
resize(size, cw) ==
    <<Max(1, (size[1] * cw) \div size[1]), Max(1, (size[2] * cw) \div size[1])>>

\* images = [Image.open(path) ...]; cell_w; resized; cell_h
OpenImages ==
    /\ pc = "open"
    /\ io' = io \cup {"open"}
    /\ LET images == [k \in 1..Len(selected) |-> fs.dims[selected[k]]]
           cw == Min(args.max_width,
                     MaxOf({images[k][1] : k \in 1..Len(images)}))
       IN /\ cell_w' = cw
          /\ resized' = [k \in 1..Len(images) |-> resize(images[k], cw)]
          /\ cell_h' = MaxOf({resized'[k][2] : k \in 1..Len(images)})
    /\ pc' = "sheet"
    /\ UNCHANGED <<world, exit_code, err, wrote, tool_rc, start_fs, history,
                   refresh>>
    /\ UNCHANGED <<cols, rows, Image, frames, indices, selected, output_path,
                   cmd, sheet_w, sheet_h, grid_color, placed>>

\* NewSheet with sheet.save(output_path) moved up to where the sheet is made
NewSheetSavedEarly ==
    /\ pc = "sheet"
    /\ LET label_height == args.label_size + LabelPadding IN
        /\ sheet_w' = cols * cell_w + (cols + 1) * grid_line_width
        /\ sheet_h' = rows * (cell_h + label_height)
                        + (rows + 1) * grid_line_width
    /\ pc' = "color"
    /\ fs' = WithFile(fs, output_path, <<sheet_w', sheet_h'>>)
    /\ wrote' = TRUE
    /\ UNCHANGED <<args, env, exit_code, err, io, tool_rc, start_fs,
                   history, refresh>>
    /\ UNCHANGED <<cols, rows, Image, frames, indices, selected, output_path,
                   cmd, cell_w, resized, cell_h, grid_color, placed>>

\* label_height, sheet_w, sheet_h; sheet = Image.new(...) (in memory)
NewSheet ==
    /\ pc = "sheet"
    /\ LET label_height == args.label_size + LabelPadding IN
        /\ sheet_w' = cols * cell_w + (cols + 1) * grid_line_width
        /\ sheet_h' = rows * (cell_h + label_height)
                        + (rows + 1) * grid_line_width
    /\ pc' = "color"
    /\ UNCHANGED <<world, exit_code, err, io, wrote, tool_rc, start_fs,
                   history, refresh>>
    /\ UNCHANGED <<cols, rows, Image, frames, indices, selected, output_path,
                   cmd, cell_w, resized, cell_h, grid_color, placed>>

\* grid_color = hex_to_rgb(args.grid_color)
ParseColor ==
    /\ pc = "color"
    /\ LET c == hex_to_rgb(args.grid_color) IN
        /\ grid_color' = c.rgb
        /\ IF c.ok
           THEN pc' = "paste" /\ UNCHANGED <<exit_code, err>>
           ELSE Die("color")
    /\ UNCHANGED <<world, io, wrote, tool_rc, start_fs, history, refresh>>
    /\ UNCHANGED <<cols, rows, Image, frames, indices, selected, output_path,
                   cmd, cell_w, resized, cell_h, sheet_w, sheet_h, placed>>

\* row = idx // cols, col = idx % cols
cell_row(idx, c) == idx \div c
cell_col(idx, c) == idx % c

\* one iteration of "for idx, im in enumerate(resized)"
PasteFrame ==
    /\ pc = "paste"
    /\ Len(placed) < Len(resized)
    /\ LET idx == Len(placed)
           im == resized[idx + 1]
           row == cell_row(idx, cols)
           col == cell_col(idx, cols)
           label_height == args.label_size + LabelPadding
           cell_x == col * cell_w + (col + 1) * grid_line_width
           cell_y == row * (cell_h + label_height)
                       + (row + 1) * grid_line_width
       IN placed' = Append(placed,
                           [row |-> row, col |-> col,
                            frame |-> selected[idx + 1],
                            frame_idx |-> indices[idx + 1],
                            x |-> cell_x + (cell_w - im[1]) \div 2,
                            y |-> cell_y + (cell_h - im[2]) \div 2])
    /\ UNCHANGED <<world, status, history, refresh>>
    /\ UNCHANGED <<cols, rows, Image, frames, indices, selected, output_path,
                   cmd, cell_w, resized, cell_h, sheet_w, sheet_h, grid_color>>

\* the grid lines are drawn; sheet.save(output_path); return 0
SaveSheet ==
    /\ pc = "paste"
    /\ Len(placed) = Len(resized)
    /\ io' = io \cup {"save"}
    /\ fs' = WithFile(fs, output_path, <<sheet_w, sheet_h>>)
    /\ wrote' = TRUE
    /\ pc' = "done" /\ exit_code' = 0 /\ err' = err
    /\ UNCHANGED <<args, env, tool_rc, start_fs, locals, history, refresh>>

\* the same command line is run again on the directory as the run left it
Rerun ==
    /\ rpc = "none"
    /\ pc = "done"
    /\ run < MaxRuns
    /\ run' = run + 1
    /\ prev' = Result
    /\ pc' = "parse_grid" /\ exit_code' = 0 - 1 /\ err' = "" /\ io' = {}
    /\ wrote' = FALSE /\ tool_rc' = 0 - 1 /\ start_fs' = fs
    /\ ResetLocals
    /\ UNCHANGED <<world, refresh>>

Compose ==
    \/ ParseGrid \/ CheckDir \/ ImportPIL \/ ListFrames \/ SelectFrames
    \/ ResolveOutput \/ FindMontage \/ RunMontage \/ OpenImages \/ NewSheet
    \/ ParseColor \/ PasteFrame \/ SaveSheet

Next == Compose \/ Rerun

Spec == Init /\ [][Next]_vars

\* every grid shape up to MaxCols x MaxRows on a directory of up to
\* MaxFrames frames, the other arguments at their defaults
GridOf(c, r) == <<DecDigits[c + 1], "x", DecDigits[r + 1]>>

InitSelect ==
    /\ \E c \in 1..MaxCols, r \in 1..MaxRows :
           args = [DefaultArgs EXCEPT !.grid = GridOf(c, r)]
    /\ env \in Envs
    /\ fs \in {DirWith(FrameNames(n)) : n \in 1..MaxFrames}
    /\ Started
    /\ NoRefresh

SpecSelect == InitSelect /\ [][Next]_vars

\* ------------------------------------------ refresh_frames: main()
WithoutPngs(dir) ==
    [exists |-> dir.exists,
     files |-> {f \in dir.files : ~IsPng(f)},
     dims |-> [f \in {g \in dir.files : ~IsPng(g)} |-> dir.dims[f]]]

\* the directory after the renderer wrote n frames into it
WithFrames(dir, n) ==
    [exists |-> dir.exists \/ n > 0,
     files |-> dir.files \cup FrameNames(n),
     dims |-> [f \in dir.files \cup FrameNames(n) |->
                  IF f \in FrameNames(n) THEN FrameSize ELSE dir.dims[f]]]

\* the arguments refresh_frames passes to make_contact_sheet.py
ChainedArgs == [DefaultArgs EXCEPT !.scene_name = "zeta"]

\* refresh_frames started by hand; the frame directory is missing or holds
\* frames, a sheet and other files of an earlier render
InitRefresh ==
    /\ rargs \in [file_exists : BOOLEAN, contact_sheet : BOOLEAN]
    /\ args = ChainedArgs
    /\ env \in Envs
    /\ fs \in {NoDir} \cup
              {DirWith(FrameNames(k) \cup extra) :
                  k \in 0..MaxOld,
                  extra \in {{}, {SceneSheetName}, {OtherName}}}
    /\ pc = "idle" /\ exit_code = 0 - 1 /\ err = "" /\ io = {}
    /\ wrote = FALSE /\ tool_rc = 0 - 1 /\ start_fs = fs
    /\ FreshLocals
    /\ run = 1 /\ prev = NoResult
    /\ rpc = "check_file" /\ rexit = 0 - 1 /\ render_rc = 0 - 1
    /\ frame_count = 0 /\ log = <<>>

compositor == <<status, locals, history>>

\* if not file_path.exists(): return 1
CheckFile ==
    /\ rpc = "check_file"
    /\ IF rargs.file_exists
       THEN rpc' = "delete" /\ rexit' = rexit
       ELSE rpc' = "done" /\ rexit' = 1
    /\ UNCHANGED <<world, compositor, rargs, render_rc, frame_count, log>>

\* if image_dir.exists(): unlink every *.png
DeleteOldFrames ==
    /\ rpc = "delete"
    /\ fs' = IF fs.exists THEN WithoutPngs(fs) ELSE fs
    /\ log' = Append(log, "delete")
    /\ rpc' = "render"
    /\ UNCHANGED <<args, env, compositor, rargs, rexit, render_rc,
                   frame_count>>

\* subprocess.run(["manim", ...], check=True): the call is made
StartRender ==
    /\ rpc = "render"
    /\ log' = Append(log, "render_start")
    /\ rpc' = "rendering"
    /\ UNCHANGED <<world, compositor, rargs, rexit, render_rc, frame_count>>

\* RenderExits with the CalledProcessError swallowed: the run goes on
RenderExitsIgnoringFailure ==
    /\ rpc = "rendering"
    /\ \E rc \in {0, 1, 127}, n \in 0..MaxRender :
        /\ rc = 127 => n = 0
        /\ render_rc' = rc
        /\ fs' = WithFrames(fs, n)
        /\ rpc' = "count" /\ rexit' = rexit
    /\ log' = Append(log, "render_end")
    /\ UNCHANGED <<args, env, compositor, rargs, frame_count>>

\* ... the call returns: manim exited 0, or non-zero (CalledProcessError,
\* return 1), or was not found (127: FileNotFoundError, not caught); it
\* left n frames behind
RenderExits ==
    /\ rpc = "rendering"
    /\ \E rc \in {0, 1, 127}, n \in 0..MaxRender :
        /\ rc = 127 => n = 0
        /\ render_rc' = rc
        /\ fs' = WithFrames(fs, n)
        /\ IF rc = 0
           THEN rpc' = "count" /\ rexit' = rexit
           ELSE rpc' = "done" /\ rexit' = 1
    /\ log' = Append(log, "render_end")
    /\ UNCHANGED <<args, env, compositor, rargs, frame_count>>

\* frame_count = len(sorted(image_dir.glob("*.png")))
CountFrames ==
    /\ rpc = "count"
    /\ frame_count' = IF fs.exists THEN Cardinality({f \in fs.files : IsPng(f)})
                      ELSE 0
    /\ log' = Append(log, "count")
    /\ rpc' = "chain"
    /\ UNCHANGED <<world, compositor, rargs, rexit, render_rc>>

\* if make_contact_sheet: subprocess.run(["python3", contact_script, ...]);
\* otherwise return 0
ChainCompositor ==
    /\ rpc = "chain"
    /\ IF rargs.contact_sheet
       THEN /\ pc' = "parse_grid"
            /\ args' = ChainedArgs
            /\ start_fs' = fs
            /\ log' = Append(log, "compose_start")
            /\ rpc' = "wait" /\ rexit' = rexit
       ELSE /\ rpc' = "done" /\ rexit' = 0
            /\ UNCHANGED <<pc, args, start_fs, log>>
    /\ UNCHANGED <<env, fs, exit_code, err, io, wrote, tool_rc, locals,
                   history, rargs, render_rc, frame_count>>

\* ... the compositor has exited: CalledProcessError -> return 1; return 0
CompositorReturns ==
    /\ rpc = "wait"
    /\ pc = "done"
    /\ log' = Append(log, "compose_end")
    /\ rexit' = IF exit_code # 0 THEN 1 ELSE 0
    /\ rpc' = "done"
    /\ UNCHANGED <<world, compositor, rargs, render_rc, frame_count>>

NextRefresh ==
    \/ CheckFile \/ DeleteOldFrames \/ StartRender \/ RenderExits
    \/ CountFrames \/ ChainCompositor \/ CompositorReturns
    \/ Compose

SpecRefresh == InitRefresh /\ [][NextRefresh]_vars

\* ------------------------------------------------------------------ claims
Total == cols * rows
NumFrames == Len(frames)
HasSelection == indices # <<>>
IndexSet == {indices[k] : k \in 1..Len(indices)}
SelectedSet == {selected[k] : k \in 1..Len(selected)}

\* C1 as stated: whenever the grid holds at most as many cells as there are
\* frames (c*r <= n) and n > 1, the selection contains index 0 and index
\* n-1, i.e. the first and the last frame of the sorted listing.
C1_FirstAndLastSelected ==
    (HasSelection /\ Total <= NumFrames /\ NumFrames > 1)
        => /\ 0 \in IndexSet /\ (NumFrames - 1) \in IndexSet
           /\ frames[1] \in SelectedSet /\ frames[NumFrames] \in SelectedSet

\* C1 amended: the same for grids of at least two cells (2 <= c*r <= n); a
\* 1x1 grid selects index 0 only.
C1_FirstAndLastSelectedFromTwoCells ==
    /\ (HasSelection /\ Total >= 2 /\ Total <= NumFrames)
        => /\ 0 \in IndexSet /\ (NumFrames - 1) \in IndexSet
           /\ frames[1] \in SelectedSet /\ frames[NumFrames] \in SelectedSet
    /\ (HasSelection /\ Total = 1) => indices = <<0>>

C1_Witness ==
    /\ HasSelection /\ Total = 6 /\ NumFrames = 9
    /\ selected[1] = frames[1] /\ selected[6] = frames[9]

\* C6: when the frame count does not exceed the grid capacity (1 <= n <= c*r,
\* n = c*r included) the selection is every frame once, in order: indices
\* 0, 1, ..., n-1.
C6_AllFramesWhenTheyFit ==
    (HasSelection /\ NumFrames <= Total)
        => /\ indices = [k \in 1..NumFrames |-> k - 1]
           /\ selected = frames

C6_Witness ==
    /\ HasSelection /\ NumFrames = Total /\ Total = 6
    /\ indices = <<0, 1, 2, 3, 4, 5>>

\* C7: when n >= total = c*r the selection has total entries; for total > 1
\* entry i is an integer nearest to i*(n-1)/(total-1), for total = 1 it is
\* [0]; 10 frames on a 2x2 grid give [0, 3, 6, 9].
C7_UniformSampling ==
    (HasSelection /\ NumFrames >= Total)
        => /\ Len(indices) = Total
           /\ Total = 1 => indices = <<0>>
           /\ Total > 1 =>
                \A k \in 1..Total :
                    LET d == indices[k] * (Total - 1) - (k - 1) * (NumFrames - 1)
                    IN /\ 2 * d <= Total - 1
                       /\ 2 * d >= 0 - (Total - 1)
           /\ (NumFrames = 10 /\ cols = 2 /\ rows = 2)
                => indices = <<0, 3, 6, 9>>

C7_Witness ==
    /\ NumFrames = 10 /\ cols = 2 /\ rows = 2 /\ indices = <<0, 3, 6, 9>>
    /\ selected = <<1, 4, 7, 10>>

\* C9: in the Pillow loop the selected frame at position i goes to the cell
\* at row i // cols, column i % cols; at most c*r frames are selected, so
\* every pasted frame has a cell of its own inside the grid.
C9_RowMajorCells ==
    /\ Len(selected) <= Total
    /\ Len(placed) <= Len(selected)
    /\ \A i \in 1..Len(placed) :
          /\ placed[i].frame = selected[i]
          /\ placed[i].row * cols + placed[i].col = i - 1
          /\ placed[i].col \in 0..(cols - 1)
          /\ placed[i].row \in 0..(rows - 1)
    /\ \A i, j \in 1..Len(placed) :
          (placed[i].row = placed[j].row /\ placed[i].col = placed[j].col)
              => i = j
    /\ (pc = "done" /\ exit_code = 0 /\ Image) => Len(placed) = Len(selected)

C9_Witness ==
    /\ pc = "done" /\ exit_code = 0 /\ cols = 3 /\ rows = 2
    /\ NumFrames = 8 /\ Len(placed) = 6
    /\ placed[5].row = 1 /\ placed[5].col = 1

\* C10: every selected index is an index of the frame list (frames[i] never
\* raises) and the selected indices strictly increase, so no frame is
\* selected twice, in both branches of the selection.
C10_IndicesInRangeAndIncreasing ==
    /\ err # "index"
    /\ \A k \in 1..Len(indices) : indices[k] \in 0..(NumFrames - 1)
    /\ \A k \in 1..(Len(indices) - 1) : indices[k] < indices[k + 1]
    /\ \A j, k \in 1..Len(selected) : selected[j] = selected[k] => j = k

\* a tie: 6 frames, 3 cells, step 2.5, the middle index round(2.5) = 2
C10_Witness ==
    /\ NumFrames = 6 /\ Total = 3 /\ indices = <<0, 2, 5>>

\* what the arguments mean, stated on the strings themselves
HexChars == {"0", "1", "2", "3", "4", "5", "6", "7", "8", "9",
             "a", "b", "c", "d", "e", "f", "A", "B", "C", "D", "E", "F"}
DecChars == {"0", "1", "2", "3", "4", "5", "6", "7", "8", "9"}

\* a decimal numeral, with or without "+", that denotes a positive integer
PositiveNumeral(p) ==
    LET d == IF Len(p) > 0 /\ p[1] = "+" THEN SubSeq(p, 2, Len(p)) ELSE p
    IN /\ Len(d) > 0
       /\ \A k \in 1..Len(d) : d[k] \in DecChars
       /\ \E k \in 1..Len(d) : d[k] # "0"

\* two positive integers separated by one "x" (the delimiter in either case)
WellFormedGrid(g) ==
    \E k \in 1..Len(g) :
        /\ g[k] \in {"x", "X"}
        /\ PositiveNumeral(SubSeq(g, 1, k - 1))
        /\ PositiveNumeral(SubSeq(g, k + 1, Len(g)))

\* six hexadecimal digits after any leading "#"
ValidColor(c) ==
    \E j \in 0..Len(c) :
        /\ \A k \in 1..j : c[k] = "#"
        /\ Len(c) - j = 6
        /\ \A k \in (j + 1)..Len(c) : c[k] \in HexChars

Finished == pc = "done"
PngFiles(dir) == {f \in dir.files : IsPng(f)}

\* C2 as stated: a second run with the same arguments on the directory as the
\* first run left it selects the same indices and the same frame files and
\* lays out the same grid as the first run, and writes no file but the one
\* the first run wrote.
C2_RerunReproducesSheet ==
    (run >= 2 /\ Finished /\ exit_code = 0 /\ prev.exit_code = 0)
        => /\ indices = prev.indices
           /\ selected = prev.selected
           /\ Geometry = prev.geometry
           /\ fs.files = start_fs.files

\* C3 as stated: a run in which a fatal condition holds (malformed grid,
\* invalid grid colour, missing directory, no PNG frame, neither Pillow nor
\* an ImageMagick montage tool, montage tool exiting non-zero) never ends
\* with exit code 0, whichever renderer is in use.
FatalCondition ==
    \/ ~WellFormedGrid(args.grid)
    \/ ~ValidColor(args.grid_color)
    \/ ~start_fs.exists
    \/ PngFiles(start_fs) = {}
    \/ (~env.pillow /\ ~env.magick /\ ~env.montage)
    \/ tool_rc > 0

C3_FatalNeverSucceeds ==
    (Finished /\ FatalCondition) => exit_code # 0

\* C4: a grid string that is not two positive integers separated by "x" is
\* rejected, and main rejects it before it touches the filesystem: no
\* directory check, no listing, no image load, no tool lookup, no write.
C4_MalformedGridRejectedFirst ==
    (pc # "parse_grid" /\ ~WellFormedGrid(args.grid))
        => /\ Finished /\ exit_code = 1 /\ err = "grid"
           /\ io = {} /\ ~wrote /\ fs = start_fs
           /\ frames = <<>> /\ selected = <<>>

C4_Witness ==
    /\ Finished /\ err = "grid" /\ io = {}
    /\ args.grid = <<"0", "x", "4">>
    /\ fs.exists /\ PngFiles(fs) # {}

\* C5: the output file is written only by the last step of a run, and a run
\* that ends in one of the fatal errors (missing directory, no frames,
\* malformed grid, invalid colour, no capability) has left the directory,
\* the output path included, exactly as it found it.
C5_NoOutputOnFatalError ==
    /\ wrote => (Finished /\ (exit_code = 0 \/ err = "montage"))
    /\ ~wrote => fs = start_fs
    /\ (Finished /\ err \in {"grid", "no_dir", "no_frames", "no_tool", "color"})
          => (exit_code = 1 /\ ~wrote /\ fs = start_fs)
    /\ (Finished /\ exit_code = 0) => (wrote /\ output_path \in fs.files)

\* the invalid colour is found after the frames were loaded and resized
C5_Witness ==
    /\ Finished /\ err = "color" /\ exit_code = 1
    /\ "open" \in io /\ sheet_w > 0 /\ ~wrote /\ fs = start_fs

\* C8: refresh_frames deletes the old PNG frames, then invokes the renderer
\* and waits for it, then counts the frames, then (only with
\* --contact-sheet) invokes the compositor; the compositor is not started
\* before the renderer has completed nor after the renderer failed, and a
\* renderer or compositor failure makes the run return non-zero.
RefreshOrder ==
    <<"delete", "render_start", "render_end", "count", "compose_start",
      "compose_end">>

C8_RefreshStepsInOrder ==
    /\ Len(log) <= Len(RefreshOrder)
    /\ \A k \in 1..Len(log) : log[k] = RefreshOrder[k]
    /\ rpc \in {"render", "rendering"} => PngFiles(fs) = {}
    /\ rpc = "rendering" => pc = "idle"
    /\ pc # "idle" =>
          /\ render_rc = 0 /\ rargs.contact_sheet
          /\ Len(log) >= 5 /\ log[3] = "render_end" /\ log[4] = "count"
    /\ (rpc = "done" /\ render_rc \notin {0 - 1, 0}) => (rexit = 1 /\ pc = "idle")
    /\ (rpc = "done" /\ pc = "done" /\ exit_code # 0) => rexit = 1
    /\ (rpc = "done" /\ rexit = 0) =>
          /\ render_rc = 0
          /\ rargs.contact_sheet => (pc = "done" /\ exit_code = 0)
          /\ ~rargs.contact_sheet => pc = "idle"

\* three frames rendered and counted, then the sheet written beside them
C8_Witness ==
    /\ rpc = "done" /\ rexit = 0 /\ log = RefreshOrder
    /\ start_fs.files = FrameNames(3) /\ frame_count = 3
    /\ fs.files = FrameNames(3) \cup {SceneSheetName}

====
